---- MODULE Spec2Model ----
(***************************************************************************)
(* qmi-firmware-update: option callbacks parse_busnum_devnum and           *)
(* parse_vid_pid, device resolution (select_path) and the dispatch done by *)
(* main(), modelled from src/qmi-firmware-update/qfu-main.c.               *)
(*                                                                         *)
(* Strings are tuples of one-character strings.  An unsigned integer wider *)
(* than 16 bits is a little-endian tuple of 16-bit limbs, so that the      *)
(* 32-bit guint and the 32- or 64-bit gulong keep their exact width.       *)
(***************************************************************************)
EXTENDS Integers, Sequences, FiniteSets, TLC

(***************************************************************************)
(* Bounds of the model.                                                    *)
(***************************************************************************)
\* longest generated option argument (longer ones are listed in ExtraInputs)
MaxLen == 3
\* most positional image arguments on the command line
MaxImages == 1

(***************************************************************************)
(* Fixed-width unsigned arithmetic.                                        *)
(***************************************************************************)
LimbBase == 2 ^ 16

\* number of 16-bit limbs of a type that is `bits` wide
Limbs(bits) == bits \div 16

Zero(n) == [i \in 1..n |-> 0]
AllOnes(n) == [i \in 1..n |-> LimbBase - 1]

\* x * m + a on n limbs, m and a below 2^15: the limbs and the carry out
RECURSIVE MulAddFrom(_, _, _, _)
MulAddFrom(x, m, carry, i) ==
    IF i > Len(x) THEN [val |-> <<>>, carry |-> carry]
    ELSE LET t    == x[i] * m + carry
             rest == MulAddFrom(x, m, t \div LimbBase, i + 1)
         IN  [val |-> <<t % LimbBase>> \o rest.val, carry |-> rest.carry]

MulAdd(x, m, a) == MulAddFrom(x, m, a, 1)

\* two's complement negation on Len(x) limbs: (~x) + 1
RECURSIVE NegFrom(_, _, _)
NegFrom(x, carry, i) ==
    IF i > Len(x) THEN <<>>
    ELSE LET t == (LimbBase - 1 - x[i]) + carry
         IN  <<t % LimbBase>> \o NegFrom(x, t \div LimbBase, i + 1)

Negate(x) == NegFrom(x, 1, 1)

\* the value of a small natural as a 32-bit guint
U32(n) == <<n % LimbBase, n \div LimbBase>>

\* (guint) aux: the low 32 bits of a gulong
ToGuint(aux) == <<aux[1], aux[2]>>

\* (guint16) aux: the low 16 bits of a gulong
ToGuint16(aux) == aux[1]

\* aux > G_MAXUINT for a gulong: some bit above the low 32 is set
AboveGuint(aux) == \E i \in 3..Len(aux) : aux[i] # 0

\* aux > G_MAXUINT16 for a gulong
AboveGuint16(aux) == \E i \in 2..Len(aux) : aux[i] # 0

IsZero(x) == \A i \in 1..Len(x) : x[i] = 0

(***************************************************************************)
(* Characters and strtoul().                                               *)
(***************************************************************************)
DecDigits == <<"0", "1", "2", "3", "4", "5", "6", "7", "8", "9">>
LowerHex == <<"a", "b", "c", "d", "e", "f">>
UpperHex == <<"A", "B", "C", "D", "E", "F">>

IndexOf(c, seq) ==
    IF \E i \in 1..Len(seq) : seq[i] = c
    THEN CHOOSE i \in 1..Len(seq) : seq[i] = c
    ELSE 0

\* the value of c as a digit, or 99 when c is no digit of any radix up to 16
DigitValue(c) ==
    IF IndexOf(c, DecDigits) # 0 THEN IndexOf(c, DecDigits) - 1
    ELSE IF IndexOf(c, LowerHex) # 0 THEN 9 + IndexOf(c, LowerHex)
    ELSE IF IndexOf(c, UpperHex) # 0 THEN 9 + IndexOf(c, UpperHex)
    ELSE 99

IsDigitOf(c, base) == DigitValue(c) < base

IsSpace(c) == c \in {" ", "\t", "\n", "\r"}

\* index of the first character of s at or after i that is no white space
RECURSIVE SkipSpace(_, _)
SkipSpace(s, i) ==
    IF i <= Len(s) /\ IsSpace(s[i]) THEN SkipSpace(s, i + 1) ELSE i

\* accumulate the digits of s from index i on; stops at the first character
\* that is no digit of the base; overflow is sticky
RECURSIVE Accumulate(_, _, _, _, _, _)
Accumulate(s, i, base, acc, any, overflow) ==
    IF i > Len(s) \/ ~IsDigitOf(s[i], base)
    THEN [val |-> acc, any |-> any, overflow |-> overflow]
    ELSE LET r == MulAdd(acc, base, DigitValue(s[i]))
         IN  Accumulate(s, i + 1, base, r.val, TRUE, overflow \/ r.carry # 0)

\* strtoul (s, NULL, base) for base 10 or 16 with an unsigned long of `bits`
\* bits: white space, an optional sign, for base 16 an optional 0x, then the
\* longest run of digits; 0 when there is none, ULONG_MAX on overflow, the
\* negated value after a minus sign.  The end pointer is not asked for.
strtoul(s, base, bits) ==
    LET n      == Limbs(bits)
        i0     == SkipSpace(s, 1)
        neg    == i0 <= Len(s) /\ s[i0] = "-"
        i1     == IF i0 <= Len(s) /\ s[i0] \in {"+", "-"} THEN i0 + 1 ELSE i0
        prefix == /\ base = 16
                  /\ i1 + 1 <= Len(s)
                  /\ s[i1] = "0"
                  /\ s[i1 + 1] \in {"x", "X"}
        i2     == IF prefix THEN i1 + 2 ELSE i1
        r      == Accumulate(s, i2, base, Zero(n), FALSE, FALSE)
    IN  IF ~r.any THEN Zero(n)
        ELSE IF r.overflow THEN AllOnes(n)
        ELSE IF neg THEN Negate(r.val)
        ELSE r.val

(***************************************************************************)
(* g_strsplit (value, ":", -1).                                            *)
(***************************************************************************)
RECURSIVE SplitFrom(_, _, _)
SplitFrom(s, i, cur) ==
    IF i > Len(s) THEN <<cur>>
    ELSE IF s[i] = ":" THEN <<cur>> \o SplitFrom(s, i + 1, <<>>)
    ELSE SplitFrom(s, i + 1, Append(cur, s[i]))

\* the empty string splits into the empty vector
g_strsplit(s) == IF s = <<>> THEN <<>> ELSE SplitFrom(s, 1, <<>>)

(***************************************************************************)
(* The option callbacks.  Each takes the argument text, the two globals it *)
(* may assign and the width of gulong, and gives the callback's outcome    *)
(* ("ok": TRUE returned, "error": FALSE returned with the GError set,      *)
(* "abort": g_assert failed) with the globals as the call leaves them.     *)
(***************************************************************************)
Err(msg, arg) == [msg |-> msg, arg |-> arg]
NoError == Err("", <<>>)

parse_busnum_devnum(value, bus, dev, bits) ==
    LET strv       == g_strsplit(value)
        two        == Len(strv) >= 2
        busnum_idx == IF two THEN 1 ELSE 0     \* 0 stands for the code's -1
        devnum_idx == IF two THEN 2 ELSE 1
        baux       == strtoul(strv[busnum_idx], 10, bits)
        bus1       == IF busnum_idx # 0 THEN ToGuint(baux) ELSE bus
        daux       == strtoul(strv[devnum_idx], 10, bits)
    IN  IF strv = <<>>
        THEN [result |-> "abort", busnum |-> bus, devnum |-> dev, error |-> NoError]
        ELSE IF Len(strv) >= 3
        THEN [result |-> "error", busnum |-> bus, devnum |-> dev,
              error |-> Err("invalid busnum-devnum string: too many fields", <<>>)]
        ELSE IF busnum_idx # 0 /\ (IsZero(baux) \/ AboveGuint(baux))
        THEN [result |-> "error", busnum |-> bus, devnum |-> dev,
              error |-> Err("invalid bus number: ", strv[busnum_idx])]
        ELSE IF IsZero(daux) \/ AboveGuint(daux)
        THEN [result |-> "error", busnum |-> bus1, devnum |-> dev,
              error |-> Err("invalid dev number: ", strv[devnum_idx])]
        ELSE [result |-> "ok", busnum |-> bus1, devnum |-> ToGuint(daux),
              error |-> NoError]

parse_vid_pid(value, v, p, bits) ==
    LET strv    == g_strsplit(value)
        vid_idx == 1
        pid_idx == IF Len(strv) >= 2 THEN 2 ELSE 0   \* 0 stands for the code's -1
        paux    == strtoul(strv[pid_idx], 16, bits)
        p1      == IF pid_idx # 0 THEN ToGuint16(paux) ELSE p
        vaux    == strtoul(strv[vid_idx], 16, bits)
    IN  IF strv = <<>>
        THEN [result |-> "abort", vid |-> v, pid |-> p, error |-> NoError]
        ELSE IF Len(strv) >= 3
        THEN [result |-> "error", vid |-> v, pid |-> p,
              error |-> Err("invalid vid-pid string: too many fields", <<>>)]
        ELSE IF pid_idx # 0 /\ (IsZero(paux) \/ AboveGuint16(paux))
        THEN [result |-> "error", vid |-> v, pid |-> p,
              error |-> Err("invalid product id: ", strv[pid_idx])]
        ELSE IF IsZero(vaux) \/ AboveGuint16(vaux)
        THEN [result |-> "error", vid |-> v, pid |-> p1,
              error |-> Err("invalid vendor id: ", strv[vid_idx])]
        ELSE [result |-> "ok", vid |-> ToGuint16(vaux), pid |-> p1,
              error |-> NoError]

(***************************************************************************)
(* Command-line material and collaborator results.                         *)
(***************************************************************************)
NULL == "NULL"

\* the arguments given to --busnum-devnum and --vid-pid in the runs of main()
MainBusnumDevnumArgs ==
    { <<"5">>, <<"1", ":", "2">>, <<"5", ":", "0">>, <<>> }
MainVidPidArgs ==
    { <<"1", "1", "9", "9">>, <<"1", "1", "9", "9", ":", "9", "0", "7", "1">>,
      <<"0", ":", "A", "B", "C", "D">> }

DevicePaths == { "/dev/cdc-wdm4" }
SerialPaths == { "/dev/ttyUSB0" }
ImageFiles == { "fw.cwe", "cfg.nvu" }

\* what qfu_udev_helper_find_by_device_info can return: NULL with the error
\* set, or a sysfs path
SysfsPaths == { "/sys/devices/usb1/1-2" }
FindResults == { NULL } \cup SysfsPaths

\* what qfu_udev_helper_list_devices can return: a list of GFile objects,
\* NULL being the empty list
GFile(name) == [file |-> name]
DeviceLists == { <<>>, <<GFile("/dev/node0")>>, <<GFile("/dev/node1"), GFile("/dev/node0")>> }

g_file_get_path(gfile) == gfile.file

QFU_UDEV_HELPER_DEVICE_TYPE_TTY == "tty"
QFU_UDEV_HELPER_DEVICE_TYPE_CDC_WDM == "cdc-wdm"

(***************************************************************************)
(* State.                                                                  *)
(***************************************************************************)
VARIABLES
    ulongBits,                \* width of gulong in this build: 32 or 64
    busnum, devnum,           \* guint, as two limbs
    vid, pid,                 \* guint16
    action_update_flag, action_update_qdl_flag, action_verify_flag,
    version_flag, help_flag,
    device_str, serial_str,   \* NULL or a path
    image_strv,               \* the positional arguments; <<>> is NULL
    optArg,                   \* the callback call under study (SpecParse only)
    pc,                       \* where main() is
    path,                     \* the local of the Run block
    result,                   \* main()'s result
    exit_status,              \* "running" until the process ends
    stderr,                   \* the g_printerr lines, in order
    calls                     \* the collaborator calls made, in order

selection == <<busnum, devnum, vid, pid>>
flags == <<action_update_flag, action_update_qdl_flag, action_verify_flag,
           version_flag, help_flag>>
strings == <<device_str, serial_str, image_strv>>
progress == <<pc, path, result, exit_status, stderr, calls>>
vars == <<ulongBits, selection, flags, strings, optArg, progress>>

NoCall == [option |-> "none", value |-> <<>>, pre |-> <<>>, result |-> "none",
           error |-> NoError]

\* the globals are zero-initialised statics
Globals0 ==
    /\ busnum = U32(0) /\ devnum = U32(0) /\ vid = 0 /\ pid = 0
    /\ action_update_flag = FALSE
    /\ action_update_qdl_flag = FALSE
    /\ action_verify_flag = FALSE
    /\ version_flag = FALSE
    /\ help_flag = FALSE
    /\ device_str = NULL
    /\ serial_str = NULL
    /\ image_strv = <<>>

Init ==
    /\ ulongBits \in {32, 64}
    /\ Globals0
    /\ optArg = NoCall
    /\ pc = "parse"
    /\ path = NULL
    /\ result = FALSE
    /\ exit_status = "running"
    /\ stderr = <<>>
    /\ calls = <<>>

(***************************************************************************)
(* main(): the helpers.                                                    *)
(***************************************************************************)
B2N(b) == IF b THEN 1 ELSE 0

\* n_actions with the QDL action left out of the sum (faulty variant)
n_actions_without_qdl(verify, update, update_qdl) == B2N(verify) + B2N(update)

\* n_actions = (action_verify_flag + action_update_flag + action_update_qdl_flag)
n_actions(verify, update, update_qdl) == B2N(verify) + B2N(update) + B2N(update_qdl)

\* an exit status that ignores the result (faulty variant)
main_exit_ignoring_result(res) == "EXIT_SUCCESS"

\* return (result ? EXIT_SUCCESS : EXIT_FAILURE)
main_exit(res) == IF res THEN "EXIT_SUCCESS" ELSE "EXIT_FAILURE"

\* the exclusivity checks without the first one (faulty variant)
selection_conflict_without_first(manual, v, p, b, d) ==
    IF manual # NULL /\ (b # U32(0) \/ d # U32(0))
    THEN "error: cannot specify device path and busnum:devnum lookup"
    ELSE IF (v # 0 \/ p # 0) /\ (b # U32(0) \/ d # U32(0))
    THEN "error: cannot specify busnum:devnum and vid:pid lookups"
    ELSE ""

\* the exclusivity checks with the first two exchanged (faulty variant)
selection_conflict_exchanged(manual, v, p, b, d) ==
    IF manual # NULL /\ (b # U32(0) \/ d # U32(0))
    THEN "error: cannot specify device path and busnum:devnum lookup"
    ELSE IF manual # NULL /\ (v # 0 \/ p # 0)
    THEN "error: cannot specify device path and vid:pid lookup"
    ELSE IF (v # 0 \/ p # 0) /\ (b # U32(0) \/ d # U32(0))
    THEN "error: cannot specify busnum:devnum and vid:pid lookups"
    ELSE ""

\* the three exclusivity checks that open select_path(): the message of the
\* first one violated, or "" when none is
selection_conflict(manual, v, p, b, d) ==
    IF manual # NULL /\ (v # 0 \/ p # 0)
    THEN "error: cannot specify device path and vid:pid lookup"
    ELSE IF manual # NULL /\ (b # U32(0) \/ d # U32(0))
    THEN "error: cannot specify device path and busnum:devnum lookup"
    ELSE IF (v # 0 \/ p # 0) /\ (b # U32(0) \/ d # U32(0))
    THEN "error: cannot specify busnum:devnum and vid:pid lookups"
    ELSE ""

FindCall(v, p, b, d, found) ==
    [fn |-> "qfu_udev_helper_find_by_device_info", args |-> <<v, p, b, d>>, ret |-> found]
ListCall(type, sysfs_path, list) ==
    [fn |-> "qfu_udev_helper_list_devices", args |-> <<type, sysfs_path>>, ret |-> list]

\* the path of the last element instead of the first (faulty variant)
last_path(list) == g_file_get_path(list[Len(list)])

\* the path chosen out of a non-empty list: g_file_get_path (G_FILE (list->data))
first_path(list) == g_file_get_path(Head(list))

\* select_path (manual, type) with the globals it reads, `found` being what
\* the lookup returns if it is called and `list` what the listing returns if
\* it is called: the path returned (or NULL), the lines printed and the
\* collaborator calls made
select_path(manual, type, v, p, b, d, found, list) ==
    LET conflict == selection_conflict(manual, v, p, b, d)
    IN  IF conflict # ""
        THEN [path |-> NULL, errors |-> << <<conflict>> >>, calls |-> <<>>]
        ELSE IF manual # NULL
        THEN [path |-> manual, errors |-> <<>>, calls |-> <<>>]
        ELSE IF found = NULL
        THEN [path |-> NULL,
              errors |-> << <<"error: ", "lookup failed">> >>,
              calls |-> <<FindCall(v, p, b, d, found)>>]
        ELSE IF list = <<>>
        THEN [path |-> NULL,
              errors |-> << <<"error: no devices found in sysfs path: ", found>> >>,
              calls |-> <<FindCall(v, p, b, d, found), ListCall(type, found, list)>>]
        ELSE [path |-> first_path(list),
              errors |-> <<>>,
              calls |-> <<FindCall(v, p, b, d, found), ListCall(type, found, list)>>]

(***************************************************************************)
(* main(): g_option_context_parse.  The options are taken one at a time,   *)
(* in any order and any number, each storing into its global; the two      *)
(* selection options go through their callbacks, and a callback that       *)
(* returns FALSE makes the parse fail.                                     *)
(***************************************************************************)
\* the `out:` label of main()
Out(res) ==
    /\ pc' = "exit"
    /\ result' = res
    /\ exit_status' = main_exit(res)

OptionFlag ==
    /\ pc = "parse"
    /\ \E f \in {"update", "update-qdl", "verify", "version", "help"} :
         /\ action_update_flag' = (action_update_flag \/ f = "update")
         /\ action_update_qdl_flag' = (action_update_qdl_flag \/ f = "update-qdl")
         /\ action_verify_flag' = (action_verify_flag \/ f = "verify")
         /\ version_flag' = (version_flag \/ f = "version")
         /\ help_flag' = (help_flag \/ f = "help")
    /\ UNCHANGED <<ulongBits, selection, strings, optArg, progress>>

OptionDevice ==
    /\ pc = "parse"
    /\ \E d \in DevicePaths : device_str' = d
    /\ UNCHANGED <<ulongBits, selection, flags, serial_str, image_strv, optArg, progress>>

OptionSerial ==
    /\ pc = "parse"
    /\ \E d \in SerialPaths : serial_str' = d
    /\ UNCHANGED <<ulongBits, selection, flags, device_str, image_strv, optArg, progress>>

OptionRemaining ==
    /\ pc = "parse"
    /\ Len(image_strv) < MaxImages
    /\ \E f \in ImageFiles : image_strv' = Append(image_strv, f)
    /\ UNCHANGED <<ulongBits, selection, flags, device_str, serial_str, optArg, progress>>

\* what g_option_context_parse and main() do with a callback's outcome
AfterCallback(r) ==
    IF r.result = "ok"
    THEN UNCHANGED progress
    ELSE IF r.result = "error"
    THEN /\ stderr' = Append(stderr, <<"error: couldn't parse option context: ", r.error>>)
         /\ Out(FALSE)
         /\ UNCHANGED <<path, calls>>
    ELSE /\ pc' = "exit"
         /\ exit_status' = "SIGABRT"
         /\ UNCHANGED <<path, result, stderr, calls>>

OptionBusnumDevnum ==
    /\ pc = "parse"
    /\ \E value \in MainBusnumDevnumArgs :
         LET r == parse_busnum_devnum(value, busnum, devnum, ulongBits)
         IN  /\ busnum' = r.busnum
             /\ devnum' = r.devnum
             /\ AfterCallback(r)
    /\ UNCHANGED <<ulongBits, vid, pid, flags, strings, optArg>>

OptionVidPid ==
    /\ pc = "parse"
    /\ \E value \in MainVidPidArgs :
         LET r == parse_vid_pid(value, vid, pid, ulongBits)
         IN  /\ vid' = r.vid
             /\ pid' = r.pid
             /\ AfterCallback(r)
    /\ UNCHANGED <<ulongBits, busnum, devnum, flags, strings, optArg>>

\* an option the context does not know, or one that lacks its argument
OptionInvalid ==
    /\ pc = "parse"
    /\ stderr' = Append(stderr, <<"error: couldn't parse option context: ",
                                  Err("unknown option", <<>>)>>)
    /\ Out(FALSE)
    /\ UNCHANGED <<ulongBits, selection, flags, strings, optArg, path, calls>>

\* g_option_context_parse returns TRUE
ParseEnd ==
    /\ pc = "parse"
    /\ pc' = "parsed"
    /\ UNCHANGED <<ulongBits, selection, flags, strings, optArg, path, result,
                   exit_status, stderr, calls>>

(***************************************************************************)
(* main() after the options are parsed.                                    *)
(***************************************************************************)
\* if (version_flag) ... if (help_flag) ...: print, result = TRUE, goto out
CheckVersionHelp ==
    /\ pc = "parsed"
    /\ IF version_flag \/ help_flag
       THEN Out(TRUE)
       ELSE /\ pc' = "actions"
            /\ UNCHANGED <<result, exit_status>>
    /\ UNCHANGED <<ulongBits, selection, flags, strings, optArg, path, stderr, calls>>

\* We don't allow multiple actions at the same time
CheckActions ==
    /\ pc = "actions"
    /\ LET n == n_actions(action_verify_flag, action_update_flag, action_update_qdl_flag)
       IN  IF n = 0
           THEN /\ stderr' = Append(stderr, <<"error: no actions specified">>)
                /\ Out(FALSE)
           ELSE IF n > 1
           THEN /\ stderr' = Append(stderr, <<"error: too many actions specified">>)
                /\ Out(FALSE)
           ELSE /\ pc' = "images"
                /\ UNCHANGED <<result, exit_status, stderr>>
    /\ UNCHANGED <<ulongBits, selection, flags, strings, optArg, path, calls>>

\* the image check left out (faulty variant)
CheckImagesSkipped ==
    /\ pc = "images"
    /\ pc' = "run"
    /\ UNCHANGED <<ulongBits, selection, flags, strings, optArg, path, result,
                   exit_status, stderr, calls>>

\* A list of images must always be provided
CheckImages ==
    /\ pc = "images"
    /\ IF image_strv = <<>>
       THEN /\ stderr' = Append(stderr, <<"error: no firmware images specified">>)
            /\ Out(FALSE)
       ELSE /\ pc' = "run"
            /\ UNCHANGED <<result, exit_status, stderr>>
    /\ UNCHANGED <<ulongBits, selection, flags, strings, optArg, path, calls>>

\* path = select_path (...); if (!path) goto out;
Selected(sp, next) ==
    /\ path' = sp.path
    /\ stderr' = stderr \o sp.errors
    /\ calls' = calls \o sp.calls
    /\ IF sp.path = NULL
       THEN Out(FALSE)
       ELSE /\ pc' = next
            /\ UNCHANGED <<result, exit_status>>

\* if (action_update_flag): path = select_path (device_str, CDC_WDM)
UpdateSelectPath ==
    /\ pc = "run"
    /\ action_update_flag
    /\ \E found \in FindResults, list \in DeviceLists :
         Selected(select_path(device_str, QFU_UDEV_HELPER_DEVICE_TYPE_CDC_WDM,
                              vid, pid, busnum, devnum, found, list), "update")
    /\ UNCHANGED <<ulongBits, selection, flags, strings, optArg>>

\* result = qfu_operation_update_run (image_strv, path, ...); the version,
\* carrier and open-mode arguments are passed on as given and are left out
UpdateRun ==
    /\ pc = "update"
    /\ \E ok \in BOOLEAN :
         /\ calls' = Append(calls, [fn |-> "qfu_operation_update_run",
                                    args |-> <<image_strv, path>>, ret |-> ok])
         /\ Out(ok)
    /\ UNCHANGED <<ulongBits, selection, flags, strings, optArg, path, stderr>>

\* else if (action_update_qdl_flag): path = select_path (serial_str, TTY)
UpdateQdlSelectPath ==
    /\ pc = "run"
    /\ ~action_update_flag
    /\ action_update_qdl_flag
    /\ \E found \in FindResults, list \in DeviceLists :
         Selected(select_path(serial_str, QFU_UDEV_HELPER_DEVICE_TYPE_TTY,
                              vid, pid, busnum, devnum, found, list), "update_qdl")
    /\ UNCHANGED <<ulongBits, selection, flags, strings, optArg>>

\* result = qfu_operation_update_qdl_run (image_strv, path)
UpdateQdlRun ==
    /\ pc = "update_qdl"
    /\ \E ok \in BOOLEAN :
         /\ calls' = Append(calls, [fn |-> "qfu_operation_update_qdl_run",
                                    args |-> <<image_strv, path>>, ret |-> ok])
         /\ Out(ok)
    /\ UNCHANGED <<ulongBits, selection, flags, strings, optArg, path, stderr>>

\* verify made to look the device up first (faulty variant)
VerifyRunAfterLookup ==
    /\ pc = "run"
    /\ ~action_update_flag
    /\ ~action_update_qdl_flag
    /\ action_verify_flag
    /\ \E ok \in BOOLEAN, found \in FindResults :
         /\ calls' = calls \o <<[fn |-> "qfu_udev_helper_find_by_device_info",
                                  args |-> <<vid, pid, busnum, devnum>>, ret |-> found],
                                 [fn |-> "qfu_operation_verify_run",
                                  args |-> <<image_strv>>, ret |-> ok]>>
         /\ Out(ok)
    /\ UNCHANGED <<ulongBits, selection, flags, strings, optArg, path, stderr>>

\* else if (action_verify_flag): result = qfu_operation_verify_run (image_strv);
\* the final else, g_assert_not_reached, cannot be taken with n_actions = 1
VerifyRun ==
    /\ pc = "run"
    /\ ~action_update_flag
    /\ ~action_update_qdl_flag
    /\ action_verify_flag
    /\ \E ok \in BOOLEAN :
         /\ calls' = Append(calls, [fn |-> "qfu_operation_verify_run",
                                    args |-> <<image_strv>>, ret |-> ok])
         /\ Out(ok)
    /\ UNCHANGED <<ulongBits, selection, flags, strings, optArg, path, stderr>>

Next ==
    \/ OptionFlag
    \/ OptionDevice
    \/ OptionSerial
    \/ OptionRemaining
    \/ OptionBusnumDevnum
    \/ OptionVidPid
    \/ OptionInvalid
    \/ ParseEnd
    \/ CheckVersionHelp
    \/ CheckActions
    \/ CheckImages
    \/ UpdateSelectPath
    \/ UpdateRun
    \/ UpdateQdlSelectPath
    \/ UpdateQdlRun
    \/ VerifyRun

Spec == Init /\ [][Next]_vars

(***************************************************************************)
(* The callbacks on their own: one call of either callback, on any short   *)
(* argument text over ParseAlphabet and on the longer texts of ExtraInputs,*)
(* from globals that are still zero or that an earlier option has set.     *)
(***************************************************************************)
ParseAlphabet == { "0", "1", "5", "f", "x", ":", "-", " " }

ExtraInputs ==
    { <<"1", ":", "2", ":", "3">>,
      <<"1", "2", "a", "b", "c">>,
      <<"+", "5">>,
      <<"0", "x", "1", "f">>,
      <<"A", "B", "C", "D", ":", "0">>,
      <<"0", ":", "A", "B", "C", "D">>,
      <<"F", "F", "F", "F">>,
      <<"F", "F", "F", "F", "F">>,
      <<"0", "0", "0", "0", "1", "f">>,
      <<"1", "1", "9", "9", ":", "9", "0", "7", "1">>,
      <<"4", "2", "9", "4", "9", "6", "7", "2", "9", "5">>,
      <<"4", "2", "9", "4", "9", "6", "7", "2", "9", "6">>,
      <<"9", "9", "9", "9", "9", "9", "9", "9", "9", "9", "9", ":", "1">>,
      <<"1", "8", "4", "4", "6", "7", "4", "4", "0", "7", "3", "7", "0", "9", "5",
        "5", "1", "6", "1", "6">>,
      <<"-", "1", "8", "4", "4", "6", "7", "4", "4", "0", "7", "3", "7", "0", "9",
        "5", "5", "1", "6", "1", "5">> }

ParseInputs == UNION { [1..n -> ParseAlphabet] : n \in 0..MaxLen } \cup ExtraInputs

\* what a global may hold before the call: zero, or what an earlier,
\* successful option has left in it
Earlier == { 0, 7 }

InitParse ==
    /\ ulongBits \in {32, 64}
    /\ \E b \in Earlier : busnum = U32(b) /\ devnum = U32(b)
    /\ \E v \in Earlier : vid = v /\ pid = v
    /\ action_update_flag = FALSE
    /\ action_update_qdl_flag = FALSE
    /\ action_verify_flag = FALSE
    /\ version_flag = FALSE
    /\ help_flag = FALSE
    /\ device_str = NULL
    /\ serial_str = NULL
    /\ image_strv = <<>>
    /\ optArg = NoCall
    /\ pc = "callback"
    /\ path = NULL
    /\ result = FALSE
    /\ exit_status = "running"
    /\ stderr = <<>>
    /\ calls = <<>>

CallParseBusnumDevnum ==
    /\ pc = "callback"
    /\ \E value \in ParseInputs :
         LET r == parse_busnum_devnum(value, busnum, devnum, ulongBits)
         IN  /\ busnum' = r.busnum
             /\ devnum' = r.devnum
             /\ optArg' = [option |-> "busnum-devnum", value |-> value,
                           pre |-> selection, result |-> r.result,
                           error |-> r.error]
    /\ pc' = "returned"
    /\ UNCHANGED <<ulongBits, vid, pid, flags, strings, path, result, exit_status,
                   stderr, calls>>

CallParseVidPid ==
    /\ pc = "callback"
    /\ \E value \in ParseInputs :
         LET r == parse_vid_pid(value, vid, pid, ulongBits)
         IN  /\ vid' = r.vid
             /\ pid' = r.pid
             /\ optArg' = [option |-> "vid-pid", value |-> value,
                           pre |-> selection, result |-> r.result,
                           error |-> r.error]
    /\ pc' = "returned"
    /\ UNCHANGED <<ulongBits, busnum, devnum, flags, strings, path, result,
                   exit_status, stderr, calls>>

NextParse == CallParseBusnumDevnum \/ CallParseVidPid

SpecParse == InitParse /\ [][NextParse]_vars

(***************************************************************************)
(* Vocabulary of the properties.                                           *)
(***************************************************************************)
Operations == { "qfu_operation_update_run", "qfu_operation_update_qdl_run",
                "qfu_operation_verify_run" }
Enumeration == { "qfu_udev_helper_find_by_device_info", "qfu_udev_helper_list_devices" }

MsgParse == "error: couldn't parse option context: "
MsgNoActions == "error: no actions specified"
MsgTooMany == "error: too many actions specified"
MsgNoImages == "error: no firmware images specified"
MsgPathVidPid == "error: cannot specify device path and vid:pid lookup"
MsgPathBusDev == "error: cannot specify device path and busnum:devnum lookup"
MsgBusDevVidPid == "error: cannot specify busnum:devnum and vid:pid lookups"

\* the texts printed, without their arguments
Lines == [i \in DOMAIN stderr |-> stderr[i][1]]
Printed(msg) == \E i \in DOMAIN stderr : stderr[i][1] = msg
Called(fns) == \E i \in DOMAIN calls : calls[i].fn \in fns
OperationSucceeded == \E i \in DOMAIN calls : calls[i].fn \in Operations /\ calls[i].ret

Exited == pc = "exit"
Failed == exit_status = "EXIT_FAILURE"
ParseFailed == Printed(MsgParse) \/ exit_status = "SIGABRT"
InfoOnly == version_flag \/ help_flag
\* the run went on to the validation of the actions and has ended
RanToEnd == Exited /\ ~ParseFailed /\ ~InfoOnly

NumActions == Cardinality({ f \in {"update", "update-qdl", "verify"} :
                  \/ f = "update" /\ action_update_flag
                  \/ f = "update-qdl" /\ action_update_qdl_flag
                  \/ f = "verify" /\ action_verify_flag })
OnlyUpdate == action_update_flag /\ NumActions = 1
OnlyUpdateQdl == action_update_qdl_flag /\ NumActions = 1
OnlyVerify == action_verify_flag /\ NumActions = 1

VidPidSet == vid # 0 \/ pid # 0
BusDevSet == busnum # <<0, 0>> \/ devnum # <<0, 0>>

(***************************************************************************)
(* C1.  As claimed: the exit status is success if and only if one of the   *)
(* three operations was dispatched and reported success.                   *)
(***************************************************************************)
C1_SuccessIffOperation ==
    Exited => ((exit_status = "EXIT_SUCCESS") <=> OperationSucceeded)

\* C1 as amended: the exit status is success if and only if the options
\* parsed and either --version or --help was given (no operation is
\* dispatched then), or one of the three operations was dispatched and
\* reported success.
C1_SuccessIffInfoOrOperation ==
    Exited => ((exit_status = "EXIT_SUCCESS") <=>
                  \/ ~ParseFailed /\ InfoOnly
                  \/ OperationSucceeded)

C1_Witness ==
    /\ Exited
    /\ exit_status = "EXIT_SUCCESS"
    /\ version_flag
    /\ action_update_flag
    /\ calls = <<>>

(***************************************************************************)
(* C2.  As claimed: a run with no action flag or with two or more ends     *)
(* with the matching configuration error, a failure exit status and no     *)
(* call to the enumeration helpers or to an operation.                     *)
(***************************************************************************)
ActionCountError ==
    /\ NumActions = 0 => Printed(MsgNoActions)
    /\ NumActions >= 2 => Printed(MsgTooMany)
    /\ Failed
    /\ calls = <<>>

\* (runs whose options do not parse are left aside: they end with the
\* parse error whatever the flags are)
C2_BadActionCountFails ==
    (Exited /\ ~ParseFailed /\ NumActions # 1) => ActionCountError

\* C2 as amended: the same for every run in which the options parsed and
\* neither --version nor --help was given.
C2_BadActionCountFailsAfterParse ==
    (RanToEnd /\ NumActions # 1) => ActionCountError

C2_Witness ==
    /\ RanToEnd
    /\ action_update_flag /\ action_verify_flag
    /\ Lines = <<MsgTooMany>>
    /\ Failed

(***************************************************************************)
(* C3.  As claimed: with exactly one action flag, a non-empty image list,  *)
(* --device and --vid-pid, resolution fails with the path-versus-vid:pid   *)
(* error, the lookup is never called and no operation is invoked.          *)
(***************************************************************************)
PathVidPidConflict ==
    /\ Lines = <<MsgPathVidPid>>
    /\ Failed
    /\ calls = <<>>

\* (runs that end before the actions are looked at are left aside)
C3_DeviceAndVidPidConflict ==
    (RanToEnd /\ NumActions = 1 /\ image_strv # <<>> /\ device_str # NULL /\ vid # 0)
        => PathVidPidConflict

\* C3 as amended: the same for every run in which the options parsed,
\* neither --version nor --help was given and the one action flag is --update.
C3_UpdateDeviceAndVidPidConflict ==
    (RanToEnd /\ OnlyUpdate /\ image_strv # <<>> /\ device_str # NULL /\ vid # 0)
        => PathVidPidConflict

C3_Witness ==
    /\ RanToEnd
    /\ OnlyUpdate
    /\ image_strv # <<>>
    /\ device_str # NULL
    /\ vid # 0
    /\ Lines = <<MsgPathVidPid>>

(***************************************************************************)
(* C6.  As claimed: when --verify is the only action flag and there are    *)
(* images, no enumeration helper is called, the verify operation is called *)
(* exactly once with exactly the image list, and the exit status is its    *)
(* result.                                                                 *)
(***************************************************************************)
VerifyDispatched ==
    /\ ~Called(Enumeration)
    /\ calls = << [fn |-> "qfu_operation_verify_run", args |-> <<image_strv>>,
                   ret |-> (exit_status = "EXIT_SUCCESS")] >>
    /\ exit_status \in {"EXIT_SUCCESS", "EXIT_FAILURE"}

\* (runs whose options do not parse are left aside)
C6_VerifyAlwaysDispatched ==
    (Exited /\ ~ParseFailed /\ OnlyVerify /\ image_strv # <<>>) => VerifyDispatched

\* C6 as amended: the same for every run in which the options parsed and
\* neither --version nor --help was given.
C6_VerifyDispatchedAfterParse ==
    (RanToEnd /\ OnlyVerify /\ image_strv # <<>>) => VerifyDispatched

C6_Witness ==
    /\ RanToEnd
    /\ OnlyVerify
    /\ Len(image_strv) = MaxImages
    /\ device_str # NULL /\ VidPidSet /\ BusDevSet
    /\ VerifyDispatched
    /\ exit_status = "EXIT_SUCCESS"

(***************************************************************************)
(* C7.  Once resolution has run for Update or UpdateQdl: the message       *)
(* printed is that of the first violated check in the order path with      *)
(* vid:pid, path with busnum:devnum, vid:pid with busnum:devnum; a         *)
(* violated check ends the run with no collaborator call.                  *)
(***************************************************************************)
\* the manual path of the action: Verify has none
Manual ==
    IF action_update_flag THEN device_str
    ELSE IF action_update_qdl_flag THEN serial_str
    ELSE NULL

ResolutionRan ==
    \/ pc \in {"update", "update_qdl"}
    \/ RanToEnd /\ NumActions = 1 /\ image_strv # <<>> /\ ~action_verify_flag

C7_FirstViolatedCheckReported ==
    ResolutionRan =>
        LET c1 == Manual # NULL /\ VidPidSet
            c2 == Manual # NULL /\ BusDevSet
            c3 == VidPidSet /\ BusDevSet
        IN  /\ c1 => Lines = <<MsgPathVidPid>>
            /\ (~c1 /\ c2) => Lines = <<MsgPathBusDev>>
            /\ (~c1 /\ ~c2 /\ c3) => Lines = <<MsgBusDevVidPid>>
            /\ (c1 \/ c2 \/ c3) => (Exited /\ Failed /\ calls = <<>>)

C7_Witness ==
    /\ ResolutionRan
    /\ Manual # NULL /\ VidPidSet /\ BusDevSet
    /\ Lines = <<MsgPathVidPid>>

(***************************************************************************)
(* C8.  The device path an update operation receives is the action's       *)
(* manual path, or the path of the first element of the non-empty list     *)
(* that the listing returned for the action's device type and the sysfs    *)
(* path that the lookup returned for (vid, pid, busnum, devnum); a failed  *)
(* lookup or an empty list ends the run in failure with no operation.      *)
(***************************************************************************)
PathFromManual(i) ==
    LET manual == IF calls[i].fn = "qfu_operation_update_run"
                  THEN device_str ELSE serial_str
    IN  /\ i = 1
        /\ manual # NULL
        /\ calls[i].args[2] = manual

PathFromLookup(i) ==
    LET type == IF calls[i].fn = "qfu_operation_update_run"
                THEN "cdc-wdm" ELSE "tty"
    IN  /\ i = 3
        /\ calls[1].fn = "qfu_udev_helper_find_by_device_info"
        /\ calls[1].args = <<vid, pid, busnum, devnum>>
        /\ calls[1].ret # NULL
        /\ calls[2].fn = "qfu_udev_helper_list_devices"
        /\ calls[2].args = <<type, calls[1].ret>>
        /\ calls[2].ret # <<>>
        /\ calls[i].args[2] = calls[2].ret[1].file

LookupCameUpEmpty ==
    \E i \in DOMAIN calls :
        \/ calls[i].fn = "qfu_udev_helper_find_by_device_info" /\ calls[i].ret = NULL
        \/ calls[i].fn = "qfu_udev_helper_list_devices" /\ calls[i].ret = <<>>

C8_PathGivenToUpdate ==
    /\ \A i \in DOMAIN calls :
         calls[i].fn \in {"qfu_operation_update_run", "qfu_operation_update_qdl_run"}
            => (PathFromManual(i) \/ PathFromLookup(i))
    /\ LookupCameUpEmpty => (Exited /\ Failed /\ ~Called(Operations))

C8_Witness ==
    /\ Len(calls) = 3
    /\ calls[3].fn = "qfu_operation_update_qdl_run"
    /\ Len(calls[2].ret) = 2
    /\ calls[3].args[2] = "/dev/node1"

(***************************************************************************)
(* C9.  As claimed: the steps run in the order action count, image list,   *)
(* selection exclusivity, resolution, dispatch, the run stopping at the    *)
(* first that fails; an empty image list with one action flag gives the    *)
(* image error with no selection check, no enumeration call and no         *)
(* operation; no operation is dispatched before the selection mechanisms   *)
(* were found exclusive.                                                   *)
(***************************************************************************)
ExclusivityViolated ==
    \/ Manual # NULL /\ VidPidSet
    \/ Manual # NULL /\ BusDevSet
    \/ VidPidSet /\ BusDevSet

StepOrder ==
    /\ pc = "images" => (NumActions = 1 /\ stderr = <<>> /\ calls = <<>>)
    /\ pc = "run" => /\ NumActions = 1 /\ image_strv # <<>>
                     /\ stderr = <<>> /\ calls = <<>> /\ path = NULL
    /\ pc \in {"update", "update_qdl"} =>
          /\ NumActions = 1 /\ image_strv # <<>>
          /\ ~ExclusivityViolated
          /\ path # NULL
          /\ ~Called(Operations)
    /\ Called(Operations) => (NumActions = 1 /\ image_strv # <<>>)
    /\ (RanToEnd /\ NumActions # 1) =>
          (Lines \in { <<MsgNoActions>>, <<MsgTooMany>> } /\ calls = <<>> /\ Failed)
    /\ (RanToEnd /\ NumActions = 1 /\ image_strv = <<>>) =>
          (Lines = <<MsgNoImages>> /\ calls = <<>> /\ path = NULL /\ Failed)

\* (runs that end before the actions are looked at are left aside)
C9_StepsInOrder ==
    /\ StepOrder
    /\ Called(Operations) => ~ExclusivityViolated

\* C9 as amended: the same for the runs in which the options parsed and
\* neither --version nor --help was given, the exclusivity of the selection
\* mechanisms being validated before the dispatch of Update and UpdateQdl
\* only: Verify is dispatched without it.
C9_StepsInOrderForUpdates ==
    /\ StepOrder
    /\ Called({"qfu_operation_update_run", "qfu_operation_update_qdl_run"})
          => ~ExclusivityViolated

C9_Witness ==
    /\ RanToEnd
    /\ OnlyUpdate
    /\ device_str # NULL /\ VidPidSet /\ BusDevSet
    /\ image_strv = <<>>
    /\ Lines = <<MsgNoImages>>

(***************************************************************************)
(* The reference the callbacks are compared with: the numerals are read    *)
(* as written, digit by digit, with no use of strtoul.                     *)
(***************************************************************************)
CallReturned == pc = "returned"
Radix == IF optArg.option = "busnum-devnum" THEN 10 ELSE 16
Fields == g_strsplit(optArg.value)

\* a non-empty string of digits of the radix
IsNumeral(f, radix) == f # <<>> /\ \A i \in 1..Len(f) : IsDigitOf(f[i], radix)

RECURSIVE StripZeros(_)
StripZeros(f) == IF f # <<>> /\ Head(f) = "0" THEN StripZeros(Tail(f)) ELSE f

\* a <= b for two decimal numerals of the same length
RECURSIVE DecLeq(_, _)
DecLeq(a, b) ==
    IF a = <<>> THEN TRUE
    ELSE IF DigitValue(Head(a)) # DigitValue(Head(b))
    THEN DigitValue(Head(a)) < DigitValue(Head(b))
    ELSE DecLeq(Tail(a), Tail(b))

\* G_MAXUINT, written out
MaxUint32Text == <<"4", "2", "9", "4", "9", "6", "7", "2", "9", "5">>

\* the numeral is in range for its option: above 0 and at most G_MAXUINT
\* (base 10) or 0xFFFF (base 16, four digits)
InRange(f, radix) ==
    LET d == StripZeros(f)
    IN  /\ d # <<>>
        /\ IF radix = 10
           THEN \/ Len(d) < Len(MaxUint32Text)
                \/ Len(d) = Len(MaxUint32Text) /\ DecLeq(d, MaxUint32Text)
           ELSE Len(d) <= 4

\* the decimal text of a guint, most significant digit first, "" for 0
RECURSIVE DecimalText(_)
DecimalText(x) ==
    IF IsZero(x) THEN <<>>
    ELSE LET t == (x[2] % 10) * LimbBase + x[1]
         IN  Append(DecimalText(<<t \div 10, x[2] \div 10>>), DecDigits[(t % 10) + 1])

\* the value of a hexadecimal numeral of at most four digits
RECURSIVE HexValue(_)
HexValue(d) ==
    IF d = <<>> THEN 0 ELSE HexValue(SubSeq(d, 1, Len(d) - 1)) * 16 + DigitValue(d[Len(d)])

\* a stored number is the number the numeral writes
Holds(stored, f, radix) ==
    IF radix = 10 THEN DecimalText(stored) = StripZeros(f)
    ELSE stored = HexValue(StripZeros(f))

\* what the call has stored for the option's two fields, first field first
StoredFirst == IF optArg.option = "busnum-devnum" THEN busnum ELSE vid
StoredSecond == IF optArg.option = "busnum-devnum" THEN devnum ELSE pid
BeforeFirst == IF optArg.option = "busnum-devnum" THEN optArg.pre[1] ELSE optArg.pre[3]
BeforeSecond == IF optArg.option = "busnum-devnum" THEN optArg.pre[2] ELSE optArg.pre[4]

(***************************************************************************)
(* C4.  A call that returns an error leaves busnum, devnum, vid and pid as *)
(* they were before the call.                                              *)
(***************************************************************************)
C4_ErrorStoresNothing ==
    (CallReturned /\ optArg.result = "error") => selection = optArg.pre

(***************************************************************************)
(* C5.  On colon-separated numerals of the option's radix the callbacks    *)
(* agree with the reference: three or more fields, or a field that is 0 or *)
(* above the maximum, is an error; otherwise DEV alone sets devnum and     *)
(* leaves busnum, BUS:DEV sets both, VID alone sets vid and leaves pid,    *)
(* VID:PID sets both.                                                      *)
(***************************************************************************)
AllNumerals == Fields # <<>> /\ \A i \in 1..Len(Fields) : IsNumeral(Fields[i], Radix)

ReferenceAccepts ==
    /\ Len(Fields) <= 2
    /\ \A i \in 1..Len(Fields) : InRange(Fields[i], Radix)

ReferenceStored ==
    IF Len(Fields) = 2
    THEN /\ Holds(StoredFirst, Fields[1], Radix)
         /\ Holds(StoredSecond, Fields[2], Radix)
    ELSE IF optArg.option = "busnum-devnum"
    THEN /\ StoredFirst = BeforeFirst
         /\ Holds(StoredSecond, Fields[1], Radix)
    ELSE /\ Holds(StoredFirst, Fields[1], Radix)
         /\ StoredSecond = BeforeSecond

C5_AgreesWithReference ==
    (CallReturned /\ AllNumerals) =>
        IF ReferenceAccepts
        THEN optArg.result = "ok" /\ ReferenceStored
        ELSE optArg.result = "error"

(***************************************************************************)
(* C10.  A field that is not a well-formed numeral of the option's radix   *)
(* makes the call return an error.                                         *)
(***************************************************************************)
C10_MalformedFieldRejected ==
    (/\ CallReturned
     /\ Fields # <<>>
     /\ \E i \in 1..Len(Fields) : ~IsNumeral(Fields[i], Radix))
        => optArg.result = "error"

\* on a build whose gulong is 64 bits wide the callbacks do agree with the
\* reference of C5
AgreesWithReferenceOn64 == ulongBits = 64 => C5_AgreesWithReference

====
